---------------------------- MODULE Spec2Model ----------------------------
(***************************************************************************)
(* Mesh control plane of SensorHub (Proyecto_redes): the receive handler   *)
(* of the sensor nodes (NODO_LUZ.cpp and its siblings) and the gateway     *)
(* bridge between the mesh and the MQTT broker (NODOS/GATEWAY.cpp, second  *)
(* program of the file, the one with the control topic).                   *)
(*                                                                         *)
(* Six specifications:                                                     *)
(*   SpecNode    one node handler at a time, fed every message of a        *)
(*               bounded input domain, with the forwarded TRACE handed on  *)
(*               to the next handler of a chain, and duplicate deliveries; *)
(*   SpecCodec   an envelope encoded by one device and decoded by another; *)
(*   Spec        the gateway loop, the broker session, the mesh transport  *)
(*               and the nodes together;                                   *)
(*   SpecLive    Spec under the scheduling of the devices;                 *)
(*   SpecGateway the gateway's mesh handler, fed every message of a        *)
(*               bounded input domain;                                     *)
(*   SpecFirst   the first program of NODOS/GATEWAY.cpp (the one without   *)
(*               a control topic) in place of the second.                  *)
(*                                                                         *)
(* What the libraries do is modelled as the code relies on it:             *)
(*   ArduinoJson 6  as<uint32_t>() of an absent, non-numeric or            *)
(*                  out-of-range member is 0; as<JsonArray>() of a member  *)
(*                  that is not an array is an unbound array, on which     *)
(*                  add() does nothing and iteration yields nothing;       *)
(*   painlessMesh   sendSingle hands the message to the node whose id is   *)
(*                  the destination, or to nobody when no such node is in  *)
(*                  the mesh; sendBroadcast hands it to every other node.  *)
(* A StaticJsonDocument<N> holds N bytes: 16 for each member and for each  *)
(* array element, and the bytes of the strings that are copied into it     *)
(* (those parsed from a String; literals are kept by pointer).  Parsing    *)
(* what does not fit fails with NoMemory; an add() that does not fit does  *)
(* nothing.                                                                *)
(***************************************************************************)
EXTENDS Integers, Sequences, FiniteSets, TLC

(***************************************************************************)
(* Bounds of the model.                                                    *)
(***************************************************************************)
\* longest hops array an injected TRACE carries
MaxHops == 2
\* most handlers one TRACE is followed through
MaxChain == 3
\* most messages the environment puts into the system (control messages
\* published by clients and sensor readings broadcast by nodes)
MaxMsgs == 1

(***************************************************************************)
(* Identifiers.                                                            *)
(***************************************************************************)
\* mesh.getNodeId() of the sensor nodes
Nodes == {2, 5, 42}
\* mesh.getNodeId() of the gateway
GatewayId == 9
\* the "from" the dashboard puts in its requests
DashboardId == 0
\* an id no node of the mesh has
Strangers == {77}

(***************************************************************************)
(* JSON values: a kind and a value.  Null is both an absent member and a   *)
(* JSON null; ArduinoJson reads the two alike.  An integer that fits a     *)
(* an int is JInt(n), 0 <= n <= 2^31 - 1; JHigh(n) is the integer          *)
(* 2^31 + n, which fits a uint32_t and not an int (half of the mesh ids,   *)
(* which are four bytes of a MAC address, are such); JBig(n) is the        *)
(* integer 2^32 + n, which fits neither (a millisecond timestamp is one).  *)
(***************************************************************************)
Null == [k |-> "null", v |-> 0]
JInt(n) == [k |-> "int", v |-> n]
JHigh(n) == [k |-> "high", v |-> n]
JBig(n) == [k |-> "big", v |-> n]
JStr(s) == [k |-> "str", v |-> s]
JArr(q) == [k |-> "arr", v |-> q]

\* the uint32_t 2^31 + n, held as the signed integer of the same 32 bits
U32High(n) == (n - 2147483647) - 1

\* JsonVariant::as<uint32_t>()
AsU32(x) ==
  IF x.k = "int" THEN x.v
  ELSE IF x.k = "high" THEN U32High(x.v)
  ELSE 0

\* doc[key] | 0: the default is an int, so the member is read as an int,
\* and the default is the result when the member does not hold one
OrZero(x) == IF x.k = "int" THEN x.v ELSE 0

\* const char* type = doc["type"]: the string, or nullptr
NullPtr == "nullptr"
AsCStr(x) == IF x.k = "str" THEN x.v ELSE NullPtr

\* JsonVariant::as<JsonArray>(): the array, or an unbound one
Unbound == [bound |-> FALSE, elems |-> <<>>]
AsJsonArray(x) == IF x.k = "arr" THEN [bound |-> TRUE, elems |-> x.v] ELSE Unbound

\* JsonArray::add(value): appends to a bound array, does nothing otherwise
ArrayAdd(a, x) == IF a.bound THEN [a EXCEPT !.elems = Append(a.elems, x)] ELSE a

\* bytes of a member or array element in the document's pool (ESP32)
SlotSize == 16
\* StaticJsonDocument<512> doc of receivedCallback
DocCapacity == 512
\* StaticJsonDocument<384> reply
ReplyCapacity == 384
\* StaticJsonDocument<256> topo
TopoCapacity == 256
\* StaticJsonDocument<200> doc of mqttCallback
ControlCapacity == 200

\* the pool bytes a parsed member takes besides its value: its slot and
\* the copy of its key
KeyBytes ==
  [type      |-> SlotSize + Len("type") + 1,
   to        |-> SlotSize + Len("to") + 1,
   from      |-> SlotSize + Len("from") + 1,
   seq       |-> SlotSize + Len("seq") + 1,
   hops      |-> SlotSize + Len("hops") + 1,
   neighbors |-> SlotSize + Len("neighbors") + 1,
   reading   |-> SlotSize + Len("reading") + 1]

\* the pool bytes the value of a member takes: the copy of a string, the
\* slots of an array's elements, nothing for a number
ValueBytes(x) ==
  IF x.k = "str" THEN Len(x.v) + 1
  ELSE IF x.k = "arr" THEN SlotSize * Len(x.v)
  ELSE 0

\* JsonDocument::memoryUsage() of a document parsed from a String
memoryUsage(doc) ==
    (IF doc.type = Null THEN 0 ELSE KeyBytes.type + ValueBytes(doc.type))
  + (IF doc.to = Null THEN 0 ELSE KeyBytes.to + ValueBytes(doc.to))
  + (IF doc.from = Null THEN 0 ELSE KeyBytes.from + ValueBytes(doc.from))
  + (IF doc.seq = Null THEN 0 ELSE KeyBytes.seq + ValueBytes(doc.seq))
  + (IF doc.hops = Null THEN 0 ELSE KeyBytes.hops + ValueBytes(doc.hops))
  + (IF doc.neighbors = Null THEN 0
     ELSE KeyBytes.neighbors + ValueBytes(doc.neighbors))
  + (IF doc.reading = Null THEN 0
     ELSE KeyBytes.reading + ValueBytes(doc.reading))

\* the first n elements of q, or all of q
Prefix(q, n) == IF Len(q) <= n THEN q ELSE SubSeq(q, 1, n)

(***************************************************************************)
(* A message on the wire is text: a JSON object, or something that does    *)
(* not parse.  A document holds the members the firmware knows.            *)
(***************************************************************************)
EmptyDoc ==
  [type |-> Null, to |-> Null, from |-> Null, seq |-> Null,
   hops |-> Null, neighbors |-> Null, reading |-> Null]

Garbage == [text |-> "garbage", doc |-> EmptyDoc]

\* serializeJson(doc, out)
serializeJson(doc) == [text |-> "json", doc |-> doc]

\* deserializeJson(doc, msg), doc being a StaticJsonDocument<capacity>
deserializeJson(capacity, msg) ==
  IF msg.text # "json" THEN [err |-> "InvalidInput", doc |-> EmptyDoc]
  ELSE IF memoryUsage(msg.doc) > capacity THEN [err |-> "NoMemory", doc |-> EmptyDoc]
  ELSE [err |-> "Ok", doc |-> msg.doc]

\* the elements that fit a reply document next to type, seq and from, and
\* a topo document next to type
ReplyRoom == (ReplyCapacity - 4 * SlotSize) \div SlotSize
TopoRoom == (TopoCapacity - 2 * SlotSize) \div SlotSize

(***************************************************************************)
(* Mesh sends, as the handler issues them.                                 *)
(***************************************************************************)
sendSingle(dest, msg) == [op |-> "single", dst |-> dest, msg |-> msg]
sendBroadcast(msg) == [op |-> "broadcast", dst |-> 0, msg |-> msg]

(***************************************************************************)
(* State.                                                                  *)
(*   rx    the latest invocation of a node's receivedCallback              *)
(*   tx    the mesh sends that invocation performed, in order              *)
(*   orig  the message the environment handed in, of which rx.msg is the   *)
(*         latest forwarded form                                           *)
(*   path  the nodes that have handled orig, in turn                       *)
(*   prev  when rx is a second delivery of the same message to the same    *)
(*         node: the mesh sends of the first handling                      *)
(***************************************************************************)
VARIABLES rx, tx, orig, path, prev

nodeVars == <<rx, tx, orig, path, prev>>

(***************************************************************************)
(* receivedCallback of a sensor node (NODO_LUZ.cpp:25-120), branch by      *)
(* branch.  Each branch yields the sequence of mesh sends it performs.     *)
(*   myId  mesh.getNodeId()      list  mesh.getNodeList()                  *)
(*   from  the transport sender  doc   the parsed message                  *)
(***************************************************************************)
\* PingBranch without the test of "to": every PING is answered
PingBranchAnswersAll(myId, list, from, doc) ==
  LET seq       == AsU32(doc.seq)
      requester == AsU32(doc.from)
      pong      == [EmptyDoc EXCEPT !.type = JStr("PONG"),
                                    !.seq = JInt(seq),
                                    !.from = JInt(myId)]
  IN  << sendSingle(requester, serializeJson(pong)) >>

PingBranch(myId, list, from, doc) ==
  LET to        == AsU32(doc.to)
      seq       == AsU32(doc.seq)
      requester == AsU32(doc.from)
      pong      == [EmptyDoc EXCEPT !.type = JStr("PONG"),
                                    !.seq = JInt(seq),
                                    !.from = JInt(myId)]
  IN  IF to = myId
      THEN << sendSingle(requester, serializeJson(pong)) >>
      ELSE << >>

TopoReqBranch(myId, list, from, doc) ==
  LET requester == OrZero(doc.from)
      topo      == [EmptyDoc EXCEPT
                      !.type = JStr("TOPO"),
                      !.neighbors = JArr(Prefix([i \in 1..Len(list) |-> JInt(list[i])],
                                                 TopoRoom))]
  IN  << sendSingle(requester, serializeJson(topo)) >>

\* PongBranch answering a PONG with a PONG
PongBranchEchoes(myId, list, from, doc) ==
  << sendSingle(from, serializeJson([doc EXCEPT !.from = JInt(myId)])) >>

PongBranch(myId, list, from, doc) == << >>

\* TraceBranch with the reply document kept from one call to the next
\* (declared static): the hops of the previous reply are still in it
TraceBranchKeepsReply(myId, list, from, doc) ==
  LET to         == AsU32(doc.to)
      seq        == AsU32(doc.seq)
      originator == AsU32(doc.from)
      hops       == IF memoryUsage(doc) + SlotSize <= DocCapacity
                    THEN ArrayAdd(AsJsonArray(doc.hops), JInt(myId))
                    ELSE AsJsonArray(doc.hops)
      fwd        == IF hops.bound THEN [doc EXCEPT !.hops = JArr(hops.elems)]
                    ELSE doc
      kept       == IF Len(tx) = 1 /\ tx[1].msg.doc.type = JStr("TRACE_REPLY")
                    THEN tx[1].msg.doc.hops.v ELSE << >>
      replyHops  == Prefix(kept \o [i \in 1..Len(hops.elems) |->
                                       JInt(AsU32(hops.elems[i]))], ReplyRoom)
      reply      == [EmptyDoc EXCEPT !.type = JStr("TRACE_REPLY"),
                                     !.seq = JInt(seq),
                                     !.from = JInt(myId),
                                     !.hops = JArr(replyHops)]
  IN  IF to = myId
      THEN << sendSingle(originator, serializeJson(reply)) >>
      ELSE << sendSingle(to, serializeJson(fwd)) >>

\* TraceBranch forwarding by broadcast instead of a unicast to "to"
TraceBranchFloods(myId, list, from, doc) ==
  LET to         == AsU32(doc.to)
      seq        == AsU32(doc.seq)
      originator == AsU32(doc.from)
      hops       == IF memoryUsage(doc) + SlotSize <= DocCapacity
                    THEN ArrayAdd(AsJsonArray(doc.hops), JInt(myId))
                    ELSE AsJsonArray(doc.hops)
      fwd        == IF hops.bound THEN [doc EXCEPT !.hops = JArr(hops.elems)]
                    ELSE doc
      replyHops  == Prefix([i \in 1..Len(hops.elems) |->
                               JInt(AsU32(hops.elems[i]))], ReplyRoom)
      reply      == [EmptyDoc EXCEPT !.type = JStr("TRACE_REPLY"),
                                     !.seq = JInt(seq),
                                     !.from = JInt(myId),
                                     !.hops = JArr(replyHops)]
  IN  IF to = myId
      THEN << sendSingle(originator, serializeJson(reply)) >>
      ELSE << sendBroadcast(serializeJson(fwd)) >>

TraceBranch(myId, list, from, doc) ==
  LET to         == AsU32(doc.to)
      seq        == AsU32(doc.seq)
      originator == AsU32(doc.from)
      hops       == IF memoryUsage(doc) + SlotSize <= DocCapacity
                    THEN ArrayAdd(AsJsonArray(doc.hops), JInt(myId))
                    ELSE AsJsonArray(doc.hops)
      \* hops aliases the member of doc: the add is seen by serializeJson(doc)
      fwd        == IF hops.bound THEN [doc EXCEPT !.hops = JArr(hops.elems)]
                    ELSE doc
      replyHops  == Prefix([i \in 1..Len(hops.elems) |->
                               JInt(AsU32(hops.elems[i]))], ReplyRoom)
      reply      == [EmptyDoc EXCEPT !.type = JStr("TRACE_REPLY"),
                                     !.seq = JInt(seq),
                                     !.from = JInt(myId),
                                     !.hops = JArr(replyHops)]
  IN  IF to = myId
      THEN << sendSingle(originator, serializeJson(reply)) >>
      ELSE << sendSingle(to, serializeJson(fwd)) >>

\* receivedCallback passing on to the mesh what it does not handle
receivedCallbackRelaysRest(myId, list, from, msg) ==
  LET d    == deserializeJson(DocCapacity, msg)
      type == AsCStr(d.doc.type)
  IN  IF d.err # "Ok" \/ type = NullPtr THEN << sendBroadcast(msg) >>
      ELSE IF type = "PING" THEN PingBranch(myId, list, from, d.doc)
      ELSE IF type = "TOPO_REQ" THEN TopoReqBranch(myId, list, from, d.doc)
      ELSE IF type = "PONG" THEN PongBranch(myId, list, from, d.doc)
      ELSE IF type = "TRACE" THEN TraceBranch(myId, list, from, d.doc)
      ELSE << sendBroadcast(msg) >>

receivedCallback(myId, list, from, msg) ==
  LET d    == deserializeJson(DocCapacity, msg)
      type == AsCStr(d.doc.type)
  IN  IF d.err # "Ok" \/ type = NullPtr THEN << >>
      ELSE IF type = "PING" THEN PingBranch(myId, list, from, d.doc)
      ELSE IF type = "TOPO_REQ" THEN TopoReqBranch(myId, list, from, d.doc)
      ELSE IF type = "PONG" THEN PongBranch(myId, list, from, d.doc)
      ELSE IF type = "TRACE" THEN TraceBranch(myId, list, from, d.doc)
      ELSE << >>

(***************************************************************************)
(* receivedCallback of the temperature node (unnamed/part_000:52-142),     *)
(* branch by branch, with the same parameters.                             *)
(***************************************************************************)
PingBranchTemperatura(myId, list, from, doc) ==
  LET to        == AsU32(doc.to)
      seq       == AsU32(doc.seq)
      requester == AsU32(doc.from)
      pong      == [EmptyDoc EXCEPT !.type = JStr("PONG"),
                                    !.seq = JInt(seq),
                                    !.from = JInt(myId)]
  IN  IF to = myId
      THEN << sendSingle(requester, serializeJson(pong)) >>
      ELSE << >>

TopoReqBranchTemperatura(myId, list, from, doc) ==
  LET requester == AsU32(doc.from)
      topo      == [EmptyDoc EXCEPT
                      !.type = JStr("TOPO"),
                      !.neighbors = JArr(Prefix([i \in 1..Len(list) |-> JInt(list[i])],
                                                 TopoRoom))]
  IN  << sendSingle(requester, serializeJson(topo)) >>

PongBranchTemperatura(myId, list, from, doc) == << >>

TraceBranchTemperatura(myId, list, from, doc) ==
  LET to         == AsU32(doc.to)
      seq        == AsU32(doc.seq)
      originator == AsU32(doc.from)
      hops       == IF memoryUsage(doc) + SlotSize <= DocCapacity
                    THEN ArrayAdd(AsJsonArray(doc.hops), JInt(myId))
                    ELSE AsJsonArray(doc.hops)
      fwd        == IF hops.bound THEN [doc EXCEPT !.hops = JArr(hops.elems)]
                    ELSE doc
      replyHops  == Prefix([i \in 1..Len(hops.elems) |->
                               JInt(AsU32(hops.elems[i]))], ReplyRoom)
      reply      == [EmptyDoc EXCEPT !.type = JStr("TRACE_REPLY"),
                                     !.seq = JInt(seq),
                                     !.from = JInt(myId),
                                     !.hops = JArr(replyHops)]
  IN  IF to = myId
      THEN << sendSingle(originator, serializeJson(reply)) >>
      ELSE << sendSingle(to, serializeJson(fwd)) >>

receivedCallbackTemperatura(myId, list, from, msg) ==
  LET d    == deserializeJson(DocCapacity, msg)
      type == AsCStr(d.doc.type)
  IN  IF d.err # "Ok" \/ type = NullPtr THEN << >>
      ELSE IF type = "PING" THEN PingBranchTemperatura(myId, list, from, d.doc)
      ELSE IF type = "TOPO_REQ" THEN TopoReqBranchTemperatura(myId, list, from, d.doc)
      ELSE IF type = "PONG" THEN PongBranchTemperatura(myId, list, from, d.doc)
      ELSE IF type = "TRACE" THEN TraceBranchTemperatura(myId, list, from, d.doc)
      ELSE << >>

(***************************************************************************)
(* receivedCallback of the soil-moisture node (README.md:154-244),         *)
(* branch by branch, with the same parameters.                             *)
(***************************************************************************)
PingBranchHumSuelo(myId, list, from, doc) ==
  LET to        == AsU32(doc.to)
      seq       == AsU32(doc.seq)
      requester == AsU32(doc.from)
      pong      == [EmptyDoc EXCEPT !.type = JStr("PONG"),
                                    !.seq = JInt(seq),
                                    !.from = JInt(myId)]
  IN  IF to = myId
      THEN << sendSingle(requester, serializeJson(pong)) >>
      ELSE << >>

TopoReqBranchHumSuelo(myId, list, from, doc) ==
  LET requester == AsU32(doc.from)
      topo      == [EmptyDoc EXCEPT
                      !.type = JStr("TOPO"),
                      !.neighbors = JArr(Prefix([i \in 1..Len(list) |-> JInt(list[i])],
                                                 TopoRoom))]
  IN  << sendSingle(requester, serializeJson(topo)) >>

PongBranchHumSuelo(myId, list, from, doc) == << >>

TraceBranchHumSuelo(myId, list, from, doc) ==
  LET to         == AsU32(doc.to)
      seq        == AsU32(doc.seq)
      originator == AsU32(doc.from)
      hops       == IF memoryUsage(doc) + SlotSize <= DocCapacity
                    THEN ArrayAdd(AsJsonArray(doc.hops), JInt(myId))
                    ELSE AsJsonArray(doc.hops)
      fwd        == IF hops.bound THEN [doc EXCEPT !.hops = JArr(hops.elems)]
                    ELSE doc
      replyHops  == Prefix([i \in 1..Len(hops.elems) |->
                               JInt(AsU32(hops.elems[i]))], ReplyRoom)
      reply      == [EmptyDoc EXCEPT !.type = JStr("TRACE_REPLY"),
                                     !.seq = JInt(seq),
                                     !.from = JInt(myId),
                                     !.hops = JArr(replyHops)]
  IN  IF to = myId
      THEN << sendSingle(originator, serializeJson(reply)) >>
      ELSE << sendSingle(to, serializeJson(fwd)) >>

receivedCallbackHumSuelo(myId, list, from, msg) ==
  LET d    == deserializeJson(DocCapacity, msg)
      type == AsCStr(d.doc.type)
  IN  IF d.err # "Ok" \/ type = NullPtr THEN << >>
      ELSE IF type = "PING" THEN PingBranchHumSuelo(myId, list, from, d.doc)
      ELSE IF type = "TOPO_REQ" THEN TopoReqBranchHumSuelo(myId, list, from, d.doc)
      ELSE IF type = "PONG" THEN PongBranchHumSuelo(myId, list, from, d.doc)
      ELSE IF type = "TRACE" THEN TraceBranchHumSuelo(myId, list, from, d.doc)
      ELSE << >>

(***************************************************************************)
(* The messages a node is handed: every type the protocol names, a type    *)
(* it does not, a type that is not a string, a sensor payload without a    *)
(* type, and text that does not parse.                                     *)
(***************************************************************************)
RECURSIVE SeqsUpTo(_, _)
SeqsUpTo(S, n) ==
  IF n = 0 THEN {<< >>}
  ELSE LET shorter == SeqsUpTo(S, n - 1)
       IN  shorter \cup {Append(q, x) : q \in shorter, x \in S}

ToVals == {Null} \cup {JInt(i) : i \in Nodes \cup {0} \cup Strangers}
\* the requester: absent, the dashboard, the gateway, a node, and a mesh id
\* of 2^31 or more
FromVals ==
  {Null, JHigh(GatewayId)} \cup {JInt(i) : i \in {DashboardId, GatewayId, 5}}
\* correlation numbers: absent, one that fits 32 bits, one that does not
SeqVals == {Null, JInt(7), JBig(7)}
HopIds == {GatewayId}
HopsVals ==
  {Null, JStr("x")} \cup {JArr(h) : h \in SeqsUpTo({JInt(i) : i \in HopIds}, MaxHops)}

Requests ==
  {[EmptyDoc EXCEPT !.type = JStr(t), !.to = to, !.from = fr, !.seq = sq] :
     t \in {"PING", "TOPO_REQ"}, to \in ToVals, fr \in FromVals, sq \in SeqVals}
Traces ==
  {[EmptyDoc EXCEPT !.type = JStr("TRACE"), !.to = to, !.from = fr,
                    !.seq = sq, !.hops = h] :
     to \in ToVals, fr \in FromVals, sq \in SeqVals, h \in HopsVals}
Replies ==
  {[EmptyDoc EXCEPT !.type = JStr("PONG"), !.seq = sq, !.from = JInt(i)] :
     sq \in SeqVals, i \in Nodes}
  \cup {[EmptyDoc EXCEPT !.type = JStr("TOPO"), !.neighbors = JArr(<<JInt(5)>>)]}
  \cup {[EmptyDoc EXCEPT !.type = JStr("TRACE_REPLY"), !.seq = sq,
                         !.from = JInt(i), !.hops = JArr(<<JInt(i)>>)] :
          sq \in SeqVals, i \in Nodes}
Others ==
  {[EmptyDoc EXCEPT !.reading = JInt(21)],
   [EmptyDoc EXCEPT !.type = JStr("DATA"), !.reading = JInt(21)],
   [EmptyDoc EXCEPT !.type = JInt(1), !.to = JInt(42)],
   [EmptyDoc EXCEPT !.type = JStr("REBOOT"), !.to = JInt(42), !.from = JInt(0)]}

\* a TRACE whose hops fill the documents: the longest array the reply
\* document holds, the longest the receiving document can parse, and one
\* element more
TraceRoom ==
  (DocCapacity
   - memoryUsage([EmptyDoc EXCEPT !.type = JStr("TRACE"), !.to = JInt(42),
                                  !.from = JInt(GatewayId), !.seq = JInt(7),
                                  !.hops = JArr(<< >>)])) \div SlotSize
LongTraces ==
  {[EmptyDoc EXCEPT !.type = JStr("TRACE"), !.to = JInt(42),
                    !.from = JInt(GatewayId), !.seq = JInt(7),
                    !.hops = JArr([i \in 1..n |-> JInt(GatewayId)])] :
     n \in {ReplyRoom, TraceRoom, TraceRoom + 1}}

InMsgs ==
  {serializeJson(d) :
     d \in Requests \cup Traces \cup LongTraces \cup Replies \cup Others}
  \cup {Garbage}

\* mesh.getNodeList() of node n, in the list's order: nobody (the node is
\* alone), or every other node of the mesh, in ascending or in descending
\* order of the ids; node 42 is also seen in a mesh with one node more than
\* a topo document holds
RECURSIVE NoDup(_)
NoDup(q) ==
  \/ Len(q) <= 1
  \/ /\ \A i \in 2..Len(q) : q[i] # q[1]
     /\ NoDup(Tail(q))
Sorted(q) ==
  \/ \A i \in 1..(Len(q) - 1) : q[i] < q[i + 1]
  \/ \A i \in 1..(Len(q) - 1) : q[i] > q[i + 1]
BigMesh == [i \in 1..(TopoRoom + 1) |-> 100 + i]
NodeLists ==
  [n \in Nodes |->
     LET others == (Nodes \cup {GatewayId}) \ {n}
     IN  {q \in SeqsUpTo(others, Cardinality(others)) :
            NoDup(q) /\ Sorted(q) /\ Len(q) \in {0, Cardinality(others)}}
         \cup (IF n = 42 THEN {BigMesh} ELSE {})]

NoRx == [node |-> 0, from |-> 0, list |-> << >>, msg |-> Garbage]
NoPrev == [dup |-> FALSE, tx |-> << >>]

\* the transport hands msg, sent by src, to node n, whose node list is l
Deliver(n, src, l, msg) ==
  /\ rx' = [node |-> n, from |-> src, list |-> l, msg |-> msg]
  /\ tx' = receivedCallback(n, l, src, msg)
  /\ orig' = msg
  /\ path' = << n >>
  /\ prev' = NoPrev

\* a handler has run: rx and tx describe it
Handled == path # << >>

\* the TRACE the latest handler forwarded is handed to node n
Forwarded ==
  /\ Len(path) >= 1
  /\ Len(tx) = 1
  /\ tx[1].msg.doc.type = JStr("TRACE")

Relay(n, l) ==
  /\ rx' = [node |-> n, from |-> rx.node, list |-> l, msg |-> tx[1].msg]
  /\ tx' = receivedCallback(n, l, rx.node, tx[1].msg)
  /\ path' = Append(path, n)
  /\ prev' = NoPrev
  /\ UNCHANGED orig

\* the transport hands the latest message to the same node once more, from
\* the same sender; the node list may have changed in between
Redeliver(l) ==
  /\ rx' = [rx EXCEPT !.list = l]
  /\ tx' = receivedCallback(rx.node, l, rx.from, rx.msg)
  /\ prev' = [dup |-> TRUE, tx |-> tx]
  /\ UNCHANGED <<orig, path>>

(***************************************************************************)
(* The envelope on the wire.  The firmware has no codec of its own: an     *)
(* envelope is encoded by filling a JsonDocument member by member and      *)
(* serializing it, and decoded by deserializeJson followed by the typed    *)
(* reads of receivedCallback.  An envelope holds, for its type, the fields *)
(* that type carries; the others are 0 or empty.                           *)
(***************************************************************************)
Envelope(type, to, from, seq, hops, neighbors, payload) ==
  [type |-> type, to |-> to, from |-> from, seq |-> seq, hops |-> hops,
   neighbors |-> neighbors, payload |-> payload]

DecodeError == Envelope("DecodeError", JInt(0), JInt(0), JInt(0), << >>, << >>, Null)

\* the document built for an envelope, serialized
encode(e) ==
  serializeJson(
    IF e.type = "PONG"
    THEN [EmptyDoc EXCEPT !.type = JStr("PONG"), !.seq = e.seq, !.from = e.from]
    ELSE IF e.type = "TOPO"
    THEN [EmptyDoc EXCEPT !.type = JStr("TOPO"), !.neighbors = JArr(e.neighbors)]
    ELSE IF e.type = "TRACE_REPLY"
    THEN [EmptyDoc EXCEPT !.type = JStr("TRACE_REPLY"), !.seq = e.seq,
                          !.from = e.from, !.hops = JArr(e.hops)]
    ELSE IF e.type = "TRACE"
    THEN [EmptyDoc EXCEPT !.type = JStr("TRACE"), !.to = e.to, !.from = e.from,
                          !.seq = e.seq, !.hops = JArr(e.hops)]
    ELSE IF e.type \in {"PING", "TOPO_REQ"}
    THEN [EmptyDoc EXCEPT !.type = JStr(e.type), !.to = e.to, !.from = e.from,
                          !.seq = e.seq]
    \* DATA: the reading alone, without type, to, from or seq
    ELSE [EmptyDoc EXCEPT !.reading = e.payload])

\* deserializeJson and the reads of the handler: type as a C string, to,
\* from and seq as uint32_t, hops as an array of uint32_t.  A document
\* without a type is a sensor reading.  No handler reads neighbors: the
\* parsed array stands for it.
decode(msg) ==
  LET d    == deserializeJson(DocCapacity, msg)
      type == AsCStr(d.doc.type)
      hops == AsJsonArray(d.doc.hops).elems
  IN  IF d.err # "Ok" THEN DecodeError
      ELSE Envelope(IF type = NullPtr THEN "DATA" ELSE type,
                    JInt(AsU32(d.doc.to)),
                    JInt(AsU32(d.doc.from)),
                    JInt(AsU32(d.doc.seq)),
                    [i \in 1..Len(hops) |-> JInt(AsU32(hops[i]))],
                    AsJsonArray(d.doc.neighbors).elems,
                    d.doc.reading)

\* the envelopes that get built: requests by the dashboard, whose seq is a
\* timestamp of its own choosing; replies and readings by the nodes
EnvIds == {JInt(i) : i \in {0, 5, 42}}
EnvSeqs == {JInt(0), JInt(7), JBig(7)}
EnvHops == SeqsUpTo({JInt(i) : i \in {GatewayId, 5}}, MaxHops)
Envelopes ==
  {Envelope(t, to, fr, sq, << >>, << >>, Null) :
     t \in {"PING", "TOPO_REQ"}, to \in EnvIds, fr \in EnvIds, sq \in EnvSeqs}
  \cup {Envelope("TRACE", to, fr, sq, h, << >>, Null) :
          to \in EnvIds, fr \in EnvIds, sq \in EnvSeqs, h \in EnvHops}
  \cup {Envelope("PONG", JInt(0), fr, sq, << >>, << >>, Null) :
          fr \in EnvIds, sq \in {JInt(0), JInt(7)}}
  \cup {Envelope("TRACE_REPLY", JInt(0), fr, sq, h, << >>, Null) :
          fr \in EnvIds, sq \in {JInt(0), JInt(7)}, h \in EnvHops}
  \cup {Envelope("TOPO", JInt(0), JInt(0), JInt(0), << >>, h, Null) :
          h \in EnvHops}
  \cup {Envelope("DATA", JInt(0), JInt(0), JInt(0), << >>, << >>, r) :
          r \in {JInt(21), JStr("no data")}}

(***************************************************************************)
(*   envelope  the envelope being sent                                     *)
(*   bytes     its encoding, once encoded                                  *)
(*   decoded   what the receiver decodes from bytes, once decoded          *)
(***************************************************************************)
VARIABLES envelope, bytes, decoded

codecVars == <<envelope, bytes, decoded>>

NoEnvelope == Envelope("none", JInt(0), JInt(0), JInt(0), << >>, << >>, Null)
NoBytes == [text |-> "none", doc |-> EmptyDoc]

InitCodec ==
  /\ envelope = NoEnvelope
  /\ bytes = NoBytes
  /\ decoded = NoEnvelope

Encode(e) ==
  /\ envelope' = e
  /\ bytes' = encode(e)
  /\ UNCHANGED decoded

Decode ==
  /\ decoded' = decode(bytes)
  /\ UNCHANGED <<envelope, bytes>>



(***************************************************************************)
(* The gateway (NODOS/GATEWAY.cpp:135-360).                                *)
(***************************************************************************)
\* the data topic without the node's id under it
DataTopicFlat(from) == [root |-> "Nodos/datos", leaf |-> Null]

\* topics: MQTT_TOPIC "/" <from>, and MQTT_TOPIC "/gateway"
DataTopic(from) == [root |-> "Nodos/datos", leaf |-> JInt(from)]
StatusTopic == [root |-> "Nodos/datos", leaf |-> JStr("gateway")]

\* client.publish(topic, payload), for the mesh message numbered id
publish(topic, payload, id) == [topic |-> topic, payload |-> payload, id |-> id]

\* the status document with the gateway's mesh id in place of its tag
StatusDocById(ip, size) == [nodeId |-> JInt(GatewayId), ip |-> ip, nodes |-> JInt(size)]

\* the status document of loop(): nodeId, ip, nodes
StatusDoc(ip, size) == [nodeId |-> JStr("gateway"), ip |-> ip, nodes |-> JInt(size)]

\* receivedCallback publishing without asking client.connected()
gatewayReceivedCallbackUnguarded(isConnected, from, msg, id) ==
  << publish(DataTopic(from), msg, id) >>

\* receivedCallback publishing sensor readings only, not typed messages
gatewayReceivedCallbackDataOnly(isConnected, from, msg, id) ==
  IF isConnected /\ AsCStr(msg.doc.type) = NullPtr
  THEN << publish(DataTopic(from), msg, id) >>
  ELSE << >>

\* receivedCallback of the gateway: the publishes it performs
gatewayReceivedCallback(isConnected, from, msg, id) ==
  IF isConnected
  THEN << publish(DataTopic(from), msg, id) >>
  ELSE << >>

\* receivedCallback relaying what it receives into the mesh
gatewayReceivedCallbackRelays(from, msg) == << sendBroadcast(msg) >>

\* receivedCallback of the gateway: the mesh sends it performs (none)
gatewayReceivedCallbackSends(from, msg) == << >>

\* mqttCallback broadcasting whatever "to" says
mqttCallbackBroadcasts(msg) ==
  IF deserializeJson(ControlCapacity, msg).err = "Ok"
  THEN << sendBroadcast(msg) >> ELSE << >>

\* mqttCallback without the test of the parse error
mqttCallbackForwardsAll(msg) ==
  LET to == AsU32(deserializeJson(ControlCapacity, msg).doc.to)
  IN  IF to = 0 THEN << sendBroadcast(msg) >> ELSE << sendSingle(to, msg) >>

\* mqttCallback: the mesh sends it performs
mqttCallback(msg) ==
  LET d  == deserializeJson(ControlCapacity, msg)
      to == AsU32(d.doc.to)
  IN  IF d.err = "Ok"
      THEN IF to = 0 THEN << sendBroadcast(msg) >>
                     ELSE << sendSingle(to, msg) >>
      ELSE << >>

\* the status report without the test of client.connected()
ipReportOffline(hasIP, isConnected, ip, size) ==
  IF hasIP
  THEN << publish(StatusTopic, StatusDoc(ip, size), 0) >>
  ELSE << >>

\* the status report counting the gateway itself among the nodes
ipReportCountsSelf(hasIP, isConnected, ip, size) ==
  IF hasIP /\ isConnected
  THEN << publish(StatusTopic, StatusDoc(ip, size + 1), 0) >>
  ELSE << >>

\* loop(), the 60 s report once its timer has expired: the publishes
ipReport(hasIP, isConnected, ip, size) ==
  IF hasIP /\ isConnected
  THEN << publish(StatusTopic, StatusDoc(ip, size), 0) >>
  ELSE << >>

(***************************************************************************)
(* The system: gateway, broker session, mesh transport, nodes.             *)
(*   members      the sensor nodes now in the mesh                         *)
(*   net          mesh messages in flight: id, dst, src, msg               *)
(*   nextId       number of the next mesh send                             *)
(*   injected     messages the environment has put in so far               *)
(*   gwPc         where loop() of the gateway is                           *)
(*   connected    client.connected()                                       *)
(*   subscribed   the broker holds the subscription to the control topic   *)
(*   stationIP    mesh.getStationIP(): 0 for 0.0.0.0                       *)
(*   ipReportDue  millis() - lastIPReport > 60000                          *)
(*   inbox        control messages the broker has sent, not yet handled,   *)
(*                each with the number the environment gave it             *)
(*   gwRx         what the latest step of the gateway handled: a mesh      *)
(*                message, a control message, or nothing                   *)
(*   gwTx, gwPub  the mesh sends and the publishes of the latest step of   *)
(*                the gateway                                              *)
(*   dropped      ids of the mesh messages the gateway handled while not   *)
(*                connected                                                *)
(*   everDropped, reconnected   the session was lost; and set up again     *)
(*   probe        the PING{to=42, from=0, seq=7} scenario: "none", "sent"  *)
(*                once the gateway has sent it into a mesh that holds 42,  *)
(*                "void" if the session or node 42 went away since,        *)
(*                "answered" once the gateway has published the PONG       *)
(***************************************************************************)
VARIABLES members, net, nextId, injected, gwPc, connected, subscribed,
          stationIP, ipReportDue, inbox, gwRx, gwTx, gwPub, dropped,
          everDropped, reconnected, probe

sysVars == <<members, net, nextId, injected, gwPc, connected, subscribed,
             stationIP, ipReportDue, inbox, gwRx, gwTx, gwPub, dropped,
             everDropped, reconnected, probe>>
gwVars == <<gwPc, connected, subscribed, stationIP, ipReportDue, inbox,
            gwRx, gwTx, gwPub, dropped, everDropped, reconnected>>
vars == <<rx, tx, orig, path, prev, envelope, bytes, decoded,
          members, net, nextId, injected, gwPc, connected, subscribed,
          stationIP, ipReportDue, inbox, gwRx, gwTx, gwPub,
          dropped, everDropped, reconnected, probe>>

NoGwRx == [kind |-> "none", from |-> 0, msg |-> Garbage, id |-> 0,
           conn |-> FALSE]

\* the sensor nodes of the system
MeshNodes == {5, 42}
\* the station addresses the gateway can hold; 0 is 0.0.0.0
StationIPs == {0, 10}

ProbePing ==
  serializeJson([EmptyDoc EXCEPT !.type = JStr("PING"), !.to = JInt(42),
                                 !.from = JInt(DashboardId), !.seq = JInt(7)])
ProbePong ==
  serializeJson([EmptyDoc EXCEPT !.type = JStr("PONG"), !.seq = JInt(7),
                                 !.from = JInt(42)])

\* what clients publish on the control topic
ControlMsgs ==
  { ProbePing,
    serializeJson([EmptyDoc EXCEPT !.type = JStr("PING"), !.to = JInt(42),
                                   !.from = JInt(GatewayId), !.seq = JInt(7)]),
    serializeJson([EmptyDoc EXCEPT !.type = JStr("TRACE"), !.to = JInt(42),
                                   !.from = JInt(GatewayId), !.seq = JInt(7)]),
    serializeJson([EmptyDoc EXCEPT !.type = JStr("TOPO_REQ"), !.to = JInt(0),
                                   !.from = JInt(GatewayId), !.seq = JInt(7)]),
    serializeJson([EmptyDoc EXCEPT !.type = JStr("TRACE"),
                                   !.from = JInt(GatewayId), !.seq = JInt(7)]),
    Garbage }

\* the periodic payload of a sensor node (taskSendData): no "type"
\* the periodic payload carrying a type that nodes answer
SensorPayloadTyped ==
  serializeJson([EmptyDoc EXCEPT !.type = JStr("TOPO_REQ"),
                                 !.reading = JInt(21)])

SensorPayload == serializeJson([EmptyDoc EXCEPT !.reading = JInt(21)])

\* mesh.getNodeList() of a device: everybody else in the mesh
RECURSIVE SetToSeq(_)
SetToSeq(S) ==
  IF S = {} THEN << >>
  ELSE LET x == CHOOSE y \in S : \A z \in S : y <= z
       IN  << x >> \o SetToSeq(S \ {x})
getNodeList(self) == SetToSeq((members \cup {GatewayId}) \ {self})

\* painlessMesh: who gets the sends of device src, numbered from id
Route(src, sends, id) ==
  UNION { LET s == sends[i]
              present == (members \cup {GatewayId}) \ {src}
              to == IF s.op = "broadcast" THEN present
                    ELSE present \cap {s.dst}
          IN  {[id |-> id + i - 1, dst |-> d, src |-> src, msg |-> s.msg] :
                 d \in to}
        : i \in 1..Len(sends) }

InitNode ==
  /\ rx = NoRx
  /\ tx = << >>
  /\ orig = Garbage
  /\ path = << >>
  /\ prev = NoPrev

InitSystem ==
  /\ members = {}
  /\ net = {}
  /\ nextId = 1
  /\ injected = 0
  /\ gwPc = "update"
  /\ connected = FALSE
  /\ subscribed = FALSE
  /\ stationIP = 0
  /\ ipReportDue = FALSE
  /\ inbox = << >>
  /\ gwRx = NoGwRx
  /\ gwTx = << >>
  /\ gwPub = << >>
  /\ dropped = {}
  /\ everDropped = FALSE
  /\ reconnected = FALSE
  /\ probe = "none"

Init == InitNode /\ InitCodec /\ InitSystem

Range(q) == {q[i] : i \in 1..Len(q)}

(*************************** the environment *******************************)
\* a client publishes c on the control topic; the broker passes it on to
\* the gateway if the gateway's session holds the subscription
ClientPublish(c) ==
  /\ injected < MaxMsgs
  /\ connected /\ subscribed
  /\ injected' = injected + 1
  /\ inbox' = Append(inbox, [id |-> injected + 1, msg |-> c])
  /\ UNCHANGED <<members, net, nextId, gwPc, connected, subscribed,
                 stationIP, ipReportDue, gwRx, gwTx, gwPub, dropped,
                 everDropped, reconnected, probe>>
  /\ UNCHANGED <<nodeVars, codecVars>>

\* the broker session is lost
BrokerDrop ==
  /\ connected
  /\ connected' = FALSE
  /\ subscribed' = FALSE
  /\ inbox' = << >>
  /\ everDropped' = TRUE
  /\ probe' = IF probe = "sent" THEN "void" ELSE probe
  /\ UNCHANGED <<members, net, nextId, injected, gwPc, stationIP,
                 ipReportDue, gwRx, gwTx, gwPub, dropped, reconnected>>
  /\ UNCHANGED <<nodeVars, codecVars>>

\* the station gets or loses its address
StationChange(ip) ==
  /\ ip # stationIP
  /\ stationIP' = ip
  /\ UNCHANGED <<members, net, nextId, injected, gwPc, connected,
                 subscribed, ipReportDue, inbox, gwRx, gwTx, gwPub,
                 dropped, everDropped, reconnected, probe>>
  /\ UNCHANGED <<nodeVars, codecVars>>

\* 60 s have passed since the last report (inside reconnect() time passes
\* in its delay)
TimePasses ==
  /\ gwPc # "reconnect"
  /\ ~ipReportDue
  /\ ipReportDue' = TRUE
  /\ UNCHANGED <<members, net, nextId, injected, gwPc, connected,
                 subscribed, stationIP, inbox, gwRx, gwTx, gwPub,
                 dropped, everDropped, reconnected, probe>>
  /\ UNCHANGED <<nodeVars, codecVars>>

NodeJoin(n) ==
  /\ n \notin members
  /\ members' = members \cup {n}
  /\ UNCHANGED <<net, nextId, injected, gwVars, probe>>
  /\ UNCHANGED <<nodeVars, codecVars>>

\* node n leaves the mesh; what was in flight to it is lost
NodeLeave(n) ==
  /\ n \in members
  /\ members' = members \ {n}
  /\ net' = {m \in net : m.dst # n}
  /\ probe' = IF probe = "sent" /\ n = 42 THEN "void" ELSE probe
  /\ UNCHANGED <<nextId, injected, gwVars>>
  /\ UNCHANGED <<nodeVars, codecVars>>

(****************************** the nodes **********************************)
\* taskSendData of node n
SensorTick(n) ==
  /\ n \in members
  /\ injected < MaxMsgs
  /\ injected' = injected + 1
  /\ net' = net \cup Route(n, << sendBroadcast(SensorPayload) >>, nextId)
  /\ nextId' = nextId + 1
  /\ UNCHANGED <<members, gwVars, probe>>
  /\ UNCHANGED <<nodeVars, codecVars>>

\* mesh.update() of node n hands it m
NodeReceive(n, m) ==
  /\ n \in members
  /\ m.dst = n
  /\ LET sends == receivedCallback(n, getNodeList(n), m.src, m.msg)
     IN  /\ net' = (net \ {m}) \cup Route(n, sends, nextId)
         /\ nextId' = nextId + Len(sends)
  /\ UNCHANGED <<members, injected, gwVars, probe>>
  /\ UNCHANGED <<nodeVars, codecVars>>

(***************************** the gateway *********************************)
\* the mesh handing the gateway m wherever loop() is, reconnect() included
GwReceiveAnytime(m) ==
  /\ m.dst = GatewayId
  /\ gwRx' = [kind |-> "mesh", from |-> m.src, msg |-> m.msg, id |-> m.id,
              conn |-> connected]
  /\ gwPub' = gatewayReceivedCallback(connected, m.src, m.msg, m.id)
  /\ gwTx' = gatewayReceivedCallbackSends(m.src, m.msg)
  /\ net' = (net \ {m}) \cup Route(GatewayId, gwTx', nextId)
  /\ nextId' = nextId + Len(gwTx')
  /\ dropped' = IF connected THEN dropped ELSE dropped \cup {m.id}
  /\ probe' = IF probe = "sent" /\ ProbePong \in {q.payload : q \in Range(gwPub')}
              THEN "answered" ELSE probe
  /\ UNCHANGED <<members, injected, gwPc, connected, subscribed,
                 stationIP, ipReportDue, inbox, everDropped, reconnected>>
  /\ UNCHANGED <<nodeVars, codecVars>>

\* loop(): mesh.update() hands the gateway m
GwReceive(m) ==
  /\ gwPc = "update"
  /\ m.dst = GatewayId
  /\ gwRx' = [kind |-> "mesh", from |-> m.src, msg |-> m.msg, id |-> m.id,
              conn |-> connected]
  /\ gwPub' = gatewayReceivedCallback(connected, m.src, m.msg, m.id)
  /\ gwTx' = gatewayReceivedCallbackSends(m.src, m.msg)
  /\ net' = (net \ {m}) \cup Route(GatewayId, gwTx', nextId)
  /\ nextId' = nextId + Len(gwTx')
  /\ dropped' = IF connected THEN dropped ELSE dropped \cup {m.id}
  /\ probe' = IF probe = "sent" /\ ProbePong \in {q.payload : q \in Range(gwPub')}
              THEN "answered" ELSE probe
  /\ UNCHANGED <<members, injected, gwPc, connected, subscribed,
                 stationIP, ipReportDue, inbox, everDropped, reconnected>>
  /\ UNCHANGED <<nodeVars, codecVars>>

\* loop(): mesh.update() returns; the station address is tested
GwCheckStation ==
  /\ gwPc = "update"
  /\ gwPc' = IF stationIP # 0
             THEN (IF connected THEN "client" ELSE "reconnect")
             ELSE "timers"
  /\ gwRx' = NoGwRx
  /\ gwTx' = << >>
  /\ gwPub' = << >>
  /\ UNCHANGED <<members, net, nextId, injected, connected, subscribed,
                 stationIP, ipReportDue, inbox, dropped,
                 everDropped, reconnected, probe>>
  /\ UNCHANGED <<nodeVars, codecVars>>

\* reconnect(): client.connect() succeeds, the control topic is subscribed
GwConnectOk ==
  /\ gwPc = "reconnect"
  /\ ~connected
  /\ connected' = TRUE
  /\ subscribed' = TRUE
  /\ reconnected' = (reconnected \/ everDropped)
  /\ gwPc' = "client"
  /\ UNCHANGED <<members, net, nextId, injected, stationIP, ipReportDue,
                 inbox, gwRx, gwTx, gwPub, dropped, everDropped, probe>>
  /\ UNCHANGED <<nodeVars, codecVars>>

\* reconnect() returning to loop() after one failed attempt
GwConnectFailGivesUp ==
  /\ gwPc = "reconnect"
  /\ ~connected
  /\ gwPc' = "timers"
  /\ \E due \in {ipReportDue, TRUE} : ipReportDue' = due
  /\ UNCHANGED <<members, net, nextId, injected, connected,
                 subscribed, stationIP, inbox, gwRx, gwTx, gwPub,
                 dropped, everDropped, reconnected, probe>>
  /\ UNCHANGED <<nodeVars, codecVars>>

\* reconnect(): client.connect() fails, delay(5000), try again
GwConnectFail ==
  /\ gwPc = "reconnect"
  /\ ~connected
  /\ \E due \in {ipReportDue, TRUE} : ipReportDue' = due
  /\ UNCHANGED <<members, net, nextId, injected, gwPc, connected,
                 subscribed, stationIP, inbox, gwRx, gwTx, gwPub,
                 dropped, everDropped, reconnected, probe>>
  /\ UNCHANGED <<nodeVars, codecVars>>

\* loop(): client.loop() runs mqttCallback on the next control message
GwControl ==
  /\ gwPc = "client"
  /\ connected
  /\ inbox # << >>
  /\ inbox' = Tail(inbox)
  /\ gwRx' = [kind |-> "control", from |-> 0, msg |-> Head(inbox).msg,
              id |-> Head(inbox).id, conn |-> connected]
  /\ gwTx' = mqttCallback(Head(inbox).msg)
  /\ gwPub' = << >>
  /\ net' = net \cup Route(GatewayId, gwTx', nextId)
  /\ nextId' = nextId + Len(gwTx')
  /\ probe' = IF Head(inbox).msg = ProbePing /\ 42 \in members /\ probe = "none"
              THEN "sent" ELSE probe
  /\ UNCHANGED <<members, injected, gwPc, connected, subscribed, stationIP,
                 ipReportDue, dropped, everDropped, reconnected>>
  /\ UNCHANGED <<nodeVars, codecVars>>

\* loop(): client.loop() returns
GwClientDone ==
  /\ gwPc = "client"
  /\ gwPc' = "timers"
  /\ gwRx' = NoGwRx
  /\ gwTx' = << >>
  /\ gwPub' = << >>
  /\ UNCHANGED <<members, net, nextId, injected, connected, subscribed,
                 stationIP, ipReportDue, inbox, dropped,
                 everDropped, reconnected, probe>>
  /\ UNCHANGED <<nodeVars, codecVars>>

\* loop(): the timers (the 30 s one only logs), and back to the top
GwTimers ==
  /\ gwPc = "timers"
  /\ gwPc' = "update"
  /\ ipReportDue' = FALSE
  /\ gwPub' = IF ipReportDue
              THEN ipReport(stationIP # 0, connected, stationIP,
                            Len(getNodeList(GatewayId)))
              ELSE << >>
  /\ gwRx' = NoGwRx
  /\ gwTx' = << >>
  /\ UNCHANGED <<members, net, nextId, injected, connected, subscribed,
                 stationIP, inbox, dropped, everDropped,
                 reconnected, probe>>
  /\ UNCHANGED <<nodeVars, codecVars>>

Next ==
  \/ \E c \in ControlMsgs : ClientPublish(c)
  \/ BrokerDrop
  \/ \E ip \in StationIPs : StationChange(ip)
  \/ TimePasses
  \/ \E n \in MeshNodes : NodeJoin(n)
  \/ \E n \in MeshNodes : NodeLeave(n)
  \/ \E n \in MeshNodes : SensorTick(n)
  \/ \E m \in net : NodeReceive(m.dst, m)
  \/ \E m \in net : GwReceive(m)
  \/ GwCheckStation
  \/ GwConnectOk
  \/ GwConnectFail
  \/ GwControl
  \/ GwClientDone
  \/ GwTimers

Spec == Init /\ [][Next]_vars

\* The system under its scheduling: loop() of the gateway is called again
\* and again and each of its calls returns (mesh.update(), client.loop(),
\* the timers); every mesh.update(), of a node or of the gateway, hands over
\* what the mesh holds for the device; and the broker does not refuse the
\* gateway for ever.
SpecLive ==
  /\ Spec
  /\ WF_vars(GwCheckStation)
  /\ WF_vars(GwClientDone)
  /\ WF_vars(GwTimers)
  /\ WF_vars(GwConnectOk)
  /\ WF_vars(\E m \in net : NodeReceive(m.dst, m))
  /\ SF_vars(\E m \in net : GwReceive(m))

(************ the gateway's receivedCallback on any mesh message ***********)
\* what the mesh can hand to the gateway: requests addressed to it, to
\* everybody or to nobody, replies, readings, and bytes that are not JSON
GwInMsgs ==
  {serializeJson([EmptyDoc EXCEPT !.type = JStr(t), !.to = to, !.from = fr,
                                  !.seq = sq]) :
     t \in {"PING", "TOPO_REQ"}, to \in {Null, JInt(0), JInt(GatewayId)},
     fr \in {JInt(DashboardId), JInt(5)}, sq \in SeqVals}
  \cup {serializeJson(d) : d \in Replies \cup Others}
  \cup {Garbage}

\* client.connected() becomes b
Session(b) ==
  /\ connected # b
  /\ connected' = b
  /\ UNCHANGED <<members, net, nextId, injected, gwPc, subscribed,
                 stationIP, ipReportDue, inbox, gwRx, gwTx, gwPub, dropped,
                 everDropped, reconnected, probe>>
  /\ UNCHANGED <<nodeVars, codecVars>>

\* the mesh calls receivedCallback(from, msg) of the gateway
GwHandle(from, msg) ==
  /\ gwRx' = [kind |-> "mesh", from |-> from, msg |-> msg, id |-> 0,
              conn |-> connected]
  /\ gwPub' = gatewayReceivedCallback(connected, from, msg, 0)
  /\ gwTx' = gatewayReceivedCallbackSends(from, msg)
  /\ UNCHANGED <<members, net, nextId, injected, gwPc, connected,
                 subscribed, stationIP, ipReportDue, inbox, dropped,
                 everDropped, reconnected, probe>>
  /\ UNCHANGED <<nodeVars, codecVars>>

NextGateway ==
  \/ \E b \in BOOLEAN : Session(b)
  \/ \E from \in MeshNodes, msg \in GwInMsgs : GwHandle(from, msg)

SpecGateway == Init /\ [][NextGateway]_vars

(************* the first gateway program of GATEWAY.cpp ********************)
\* It has no control topic: reconnect() subscribes to nothing, there is no
\* mqttCallback, and loop() runs the timers before the station test.
FirstDataTopic(from) == [root |-> "dht22/datos", leaf |-> JInt(from)]
FirstStatusTopic == [root |-> "dht22/datos", leaf |-> JStr("gateway")]

\* receivedCallback of the first program: the publishes it performs
firstReceivedCallback(isConnected, from, msg, id) ==
  IF isConnected
  THEN << publish(FirstDataTopic(from), msg, id) >>
  ELSE << >>

\* loop() of the first program, the 60 s report once its timer has expired
firstIpReport(hasIP, isConnected, ip, size) ==
  IF hasIP /\ isConnected
  THEN << publish(FirstStatusTopic, StatusDoc(ip, size), 0) >>
  ELSE << >>

\* loop(): mesh.update() hands the gateway m
FirstReceive(m) ==
  /\ gwPc = "update"
  /\ m.dst = GatewayId
  /\ gwRx' = [kind |-> "mesh", from |-> m.src, msg |-> m.msg, id |-> m.id,
              conn |-> connected]
  /\ gwPub' = firstReceivedCallback(connected, m.src, m.msg, m.id)
  /\ net' = net \ {m}
  /\ dropped' = IF connected THEN dropped ELSE dropped \cup {m.id}
  /\ UNCHANGED <<members, nextId, injected, gwPc, connected, subscribed,
                 stationIP, ipReportDue, inbox, gwTx, everDropped,
                 reconnected, probe>>
  /\ UNCHANGED <<nodeVars, codecVars>>

\* loop(): mesh.update() returns
FirstUpdateDone ==
  /\ gwPc = "update"
  /\ gwPc' = "timers"
  /\ gwRx' = NoGwRx
  /\ gwPub' = << >>
  /\ UNCHANGED <<members, net, nextId, injected, connected, subscribed,
                 stationIP, ipReportDue, inbox, gwTx, dropped,
                 everDropped, reconnected, probe>>
  /\ UNCHANGED <<nodeVars, codecVars>>

\* loop(): the timers (the 30 s one only logs)
FirstTimers ==
  /\ gwPc = "timers"
  /\ gwPc' = "station"
  /\ ipReportDue' = FALSE
  /\ gwPub' = IF ipReportDue
              THEN firstIpReport(stationIP # 0, connected, stationIP,
                                 Len(getNodeList(GatewayId)))
              ELSE << >>
  /\ UNCHANGED <<members, net, nextId, injected, connected, subscribed,
                 stationIP, inbox, gwRx, gwTx, dropped, everDropped,
                 reconnected, probe>>
  /\ UNCHANGED <<nodeVars, codecVars>>

\* loop(): the station address is tested; without one, back to the top
FirstCheckStation ==
  /\ gwPc = "station"
  /\ gwPc' = IF stationIP # 0
             THEN (IF connected THEN "client" ELSE "reconnect")
             ELSE "update"
  /\ gwPub' = << >>
  /\ UNCHANGED <<members, net, nextId, injected, connected, subscribed,
                 stationIP, ipReportDue, inbox, gwRx, gwTx, dropped,
                 everDropped, reconnected, probe>>
  /\ UNCHANGED <<nodeVars, codecVars>>

\* reconnect(): client.connect() succeeds; nothing is subscribed
FirstConnectOk ==
  /\ gwPc = "reconnect"
  /\ ~connected
  /\ connected' = TRUE
  /\ reconnected' = (reconnected \/ everDropped)
  /\ gwPc' = "client"
  /\ UNCHANGED <<members, net, nextId, injected, subscribed, stationIP,
                 ipReportDue, inbox, gwRx, gwTx, gwPub, dropped,
                 everDropped, probe>>
  /\ UNCHANGED <<nodeVars, codecVars>>

\* loop(): client.loop() returns (no callback is set), back to the top
FirstClientDone ==
  /\ gwPc = "client"
  /\ gwPc' = "update"
  /\ UNCHANGED <<members, net, nextId, injected, connected, subscribed,
                 stationIP, ipReportDue, inbox, gwRx, gwTx, gwPub, dropped,
                 everDropped, reconnected, probe>>
  /\ UNCHANGED <<nodeVars, codecVars>>

NextFirst ==
  \/ BrokerDrop
  \/ \E ip \in StationIPs : StationChange(ip)
  \/ TimePasses
  \/ \E n \in MeshNodes : NodeJoin(n)
  \/ \E n \in MeshNodes : NodeLeave(n)
  \/ \E n \in MeshNodes : SensorTick(n)
  \/ \E m \in net : NodeReceive(m.dst, m)
  \/ \E m \in net : FirstReceive(m)
  \/ FirstUpdateDone
  \/ FirstTimers
  \/ FirstCheckStation
  \/ FirstConnectOk
  \/ GwConnectFail
  \/ FirstClientDone

SpecFirst == Init /\ [][NextFirst]_vars

NextNode ==
  \/ /\ path = << >>
     /\ \E n \in Nodes, msg \in InMsgs :
          \E src \in {GatewayId, 5} \ {n}, l \in NodeLists[n] :
             Deliver(n, src, l, msg)
     /\ UNCHANGED <<codecVars, sysVars>>
  \/ /\ Forwarded
     /\ Len(path) < MaxChain
     /\ \E n \in Nodes : \E l \in NodeLists[n] : Relay(n, l)
     /\ UNCHANGED <<codecVars, sysVars>>
  \/ /\ Handled
     /\ ~prev.dup
     /\ \E l \in NodeLists[rx.node] : Redeliver(l)
     /\ UNCHANGED <<codecVars, sysVars>>

SpecNode == Init /\ [][NextNode]_vars

NextCodec ==
  \/ /\ bytes = NoBytes
     /\ \E e \in Envelopes : Encode(e)
     /\ UNCHANGED <<nodeVars, sysVars>>
  \/ /\ bytes # NoBytes
     /\ decoded = NoEnvelope
     /\ Decode
     /\ UNCHANGED <<nodeVars, sysVars>>

SpecCodec == Init /\ [][NextCodec]_vars

(***************************************************************************)
(* Properties of the node handler, checked under SpecNode.                 *)
(***************************************************************************)
rxDoc == rx.msg.doc
RxIs(t) == Handled /\ rx.msg.text = "json" /\ rxDoc.type = JStr(t)
\* a member that holds a number
IsNumber(x) == x.k \in {"int", "high", "big"}
\* no node occurs twice in path
Distinct(q) == \A i, j \in 1..Len(q) : i # j => q[i] # q[j]

\* C1: a PING{to=X, seq=S, from=R} handled by node X causes exactly one
\* mesh send, a unicast to R of PONG{seq=S, from=X}.
C1_PingAnswered ==
  ( /\ RxIs("PING")
    /\ rxDoc.to = JInt(rx.node)
    /\ IsNumber(rxDoc.seq)
    /\ rxDoc.from.k = "int" )
  => tx = << sendSingle(rxDoc.from.v,
                        serializeJson([EmptyDoc EXCEPT
                                         !.type = JStr("PONG"),
                                         !.seq = rxDoc.seq,
                                         !.from = JInt(rx.node)])) >>

\* C2: a PING whose "to" is not the handling node's id (0 and absent
\* included) causes no mesh send.
C2_PingNotMineSilent ==
  (RxIs("PING") /\ rxDoc.to # JInt(rx.node)) => tx = << >>

C2_Witness ==
  /\ RxIs("PING")
  /\ rx.node = 42
  /\ rxDoc.to = JInt(5)
  /\ tx = << >>

\* C3: a TRACE{to=X, seq=S, from=O, hops=H} handled in turn by distinct
\* nodes, the last of which is X, is answered by a unicast to O of
\* TRACE_REPLY{seq=S, from=X, hops = H, then the handlers in order}.
C3_TraceReplyPath ==
  ( /\ Handled
    /\ orig.text = "json"
    /\ orig.doc.type = JStr("TRACE")
    /\ orig.doc.to = JInt(path[Len(path)])
    /\ IsNumber(orig.doc.seq)
    /\ orig.doc.from.k = "int"
    /\ orig.doc.hops.k = "arr"
    /\ Distinct(path) )
  => tx = << sendSingle(orig.doc.from.v,
                        serializeJson([EmptyDoc EXCEPT
                          !.type = JStr("TRACE_REPLY"),
                          !.seq = orig.doc.seq,
                          !.from = JInt(path[Len(path)]),
                          !.hops = JArr(orig.doc.hops.v \o
                                   [i \in 1..Len(path) |-> JInt(path[i])])])) >>

\* C4: a node that handles a TRACE emits one message whose hops is the
\* received hops (none, when the TRACE has no hops member) followed by the
\* node's id; a forwarded TRACE keeps to, from and seq.
ReceivedHops == IF rxDoc.hops.k = "arr" THEN rxDoc.hops.v ELSE << >>
C4_TraceAppendsSelf ==
  (RxIs("TRACE") /\ rxDoc.hops.k \in {"arr", "null"})
  => /\ Len(tx) = 1
     /\ tx[1].op = "single"
     /\ tx[1].msg.doc.hops = JArr(Append(ReceivedHops, JInt(rx.node)))
     /\ IF rxDoc.to = JInt(rx.node)
        THEN tx[1].msg.doc.type = JStr("TRACE_REPLY")
        ELSE /\ tx[1].msg.doc.type = JStr("TRACE")
             /\ tx[1].msg.doc.to = rxDoc.to
             /\ tx[1].msg.doc.from = rxDoc.from
             /\ tx[1].msg.doc.seq = rxDoc.seq

\* C8: a TOPO_REQ, whatever its "to", causes exactly one mesh send: a
\* unicast to the request's "from" (0 when it has none) of a TOPO whose
\* neighbors are, as a set, the node list at the time of handling.
C8_TopoReqAnswered ==
  RxIs("TOPO_REQ")
  => /\ Len(tx) = 1
     /\ tx[1].op = "single"
     /\ tx[1].dst = AsU32(rxDoc.from)
     /\ tx[1].msg.text = "json"
     /\ tx[1].msg.doc.type = JStr("TOPO")
     /\ tx[1].msg.doc.neighbors.k = "arr"
     /\ {tx[1].msg.doc.neighbors.v[i] :
            i \in 1..Len(tx[1].msg.doc.neighbors.v)}
          = {JInt(rx.list[i]) : i \in 1..Len(rx.list)}

\* C9: every reply a node emits (PONG, TOPO, TRACE_REPLY) is a unicast to
\* the "from" of the request it handled, never a broadcast, and not the
\* transport sender when that differs.
ReplyTypes == {JStr("PONG"), JStr("TOPO"), JStr("TRACE_REPLY")}
C9_RepliesToFrom ==
  Handled =>
    \A i \in 1..Len(tx) :
      tx[i].msg.doc.type \in ReplyTypes
      => /\ tx[i].op = "single"
         /\ rxDoc.from.k \in {"int", "high"} => tx[i].dst = AsU32(rxDoc.from)

\* C10: a node that receives a PONG, a TOPO or a TRACE_REPLY performs no
\* mesh send.
C10_RepliesTerminal ==
  (Handled /\ rx.msg.text = "json" /\ rxDoc.type \in ReplyTypes)
  => tx = << >>

C10_Witness ==
  /\ RxIs("PONG")
  /\ rxDoc.from = JInt(42)
  /\ tx = << >>

C13_SeqVerbatim ==
  (Handled /\ (RxIs("PING") \/ RxIs("TRACE")) /\ IsNumber(rxDoc.seq))
  => \A i \in 1..Len(tx) :
       tx[i].msg.doc.type \in {JStr("PONG"), JStr("TRACE_REPLY")}
       => tx[i].msg.doc.seq = rxDoc.seq

C21_NonControlSilent ==
  ( /\ Handled
    /\ \/ deserializeJson(DocCapacity, rx.msg).err # "Ok"
       \/ AsCStr(rxDoc.type) \notin {"PING", "TOPO_REQ", "PONG", "TRACE"} )
  => tx = << >>

C21_Witness ==
  /\ Handled
  /\ rx.msg.text = "json"
  /\ rxDoc.type = Null
  /\ rxDoc.reading = JInt(21)
  /\ tx = << >>

C27_TraceAlwaysForwarded ==
  ( /\ Handled
    /\ rx.msg.text = "json"
    /\ rxDoc.type = JStr("TRACE")
    /\ rxDoc.to.k = "int"
    /\ rxDoc.to # JInt(rx.node) )
  => /\ Len(tx) = 1
     /\ tx[1].op = "single"
     /\ tx[1].dst = rxDoc.to.v
     /\ tx[1].msg.doc.type = JStr("TRACE")

\* C32: on every message, for every node id and node list, the handlers of
\* the temperature node and of the soil-moisture node perform the mesh
\* sends the handler of the light node performs: as many, in the same
\* order, to the same destinations, with the same payloads.
C32_HandlersEquivalent ==
  Handled
  => /\ receivedCallbackTemperatura(rx.node, rx.list, rx.from, rx.msg) = tx
     /\ receivedCallbackHumSuelo(rx.node, rx.list, rx.from, rx.msg) = tx

(***************************************************************************)
(* Property of the encoding, checked under SpecCodec.                      *)
(***************************************************************************)
\* C11: decoding the encoding of an envelope gives back the envelope, field
\* by field, hops in order.
C11_RoundTrip ==
  decoded # NoEnvelope => decoded = envelope

(***************************************************************************)
(* Properties of the gateway and of the system, checked under Spec.        *)
(***************************************************************************)
\* C5: once the gateway, connected, has sent the client's
\* PING{to=42, from=0, seq=7} into a mesh that holds node 42, and neither
\* the session nor node 42 went away, the gateway publishes
\* PONG{seq=7, from=42}: when the mesh has nothing left in flight, it has.
C5_ProbeAnswered ==
  (probe \notin {"none", "void"} /\ net = {}) => probe = "answered"

\* C6: a mesh message the gateway handles while not connected is dropped:
\* it is not kept for the gateway, and no publish, at any later time,
\* carries it.
C6_DroppedNeverPublished ==
  /\ \A i \in 1..Len(gwPub) : gwPub[i].id \notin dropped
  /\ \A m \in net : m.dst = GatewayId => m.id \notin dropped

\* a message was dropped, the session was set up again, and the gateway
\* has just published another message
C6_Witness ==
  /\ dropped # {}
  /\ reconnected
  /\ connected
  /\ Len(gwPub) = 1
  /\ gwPub[1].topic # StatusTopic

\* C7: after the session was lost and set up again, the expiry of the 60 s
\* timer, handled with the session up and an address, publishes one status
\* message on <data-root>/gateway whose nodes is the size of the node list.
C7_StatusAfterReconnect ==
  [][ ( /\ gwPc = "timers"
        /\ gwPc' = "update"
        /\ ipReportDue
        /\ reconnected
        /\ connected
        /\ stationIP # 0 )
      => gwPub' = << publish(StatusTopic,
                             StatusDoc(stationIP, Cardinality(members)),
                             0) >> ]_vars

C7_Witness ==
  /\ reconnected
  /\ members # {}
  /\ Len(gwPub) = 1
  /\ gwPub[1].topic = StatusTopic
  /\ gwPub[1].payload.nodes = JInt(Cardinality(members))

\* C14: a control message that parses makes the gateway perform exactly
\* one mesh send, of the message as received: a broadcast when its "to" is
\* 0 or absent, a unicast to "to" otherwise.
C14_ControlForwarded ==
  ( /\ gwRx.kind = "control"
    /\ gwRx.msg.text = "json"
    /\ gwRx.msg.doc.to.k \in {"null", "int"} )
  => gwTx = << IF gwRx.msg.doc.to \in {Null, JInt(0)}
               THEN sendBroadcast(gwRx.msg)
               ELSE sendSingle(gwRx.msg.doc.to.v, gwRx.msg) >>

C14_Witness ==
  /\ gwRx.kind = "control"
  /\ gwRx.msg.doc.to = JInt(42)
  /\ gwTx = << sendSingle(42, gwRx.msg) >>
  /\ \E m \in net : m.dst = 42 /\ m.msg = gwRx.msg

\* C15: the step that handles a control message that does not parse sends
\* nothing into the mesh, publishes nothing, and leaves the session, the
\* subscription, the report timer and the place in loop() as they were.
C15_UndecodableDiscarded ==
  [][ ( /\ gwRx' # gwRx
        /\ gwRx'.kind = "control"
        /\ gwRx'.msg.text # "json" )
      => /\ gwTx' = << >>
         /\ gwPub' = << >>
         /\ net' = net
         /\ connected' = connected
         /\ subscribed' = subscribed
         /\ ipReportDue' = ipReportDue
         /\ gwPc' = gwPc ]_vars

C15_Witness ==
  /\ gwRx.kind = "control"
  /\ gwRx.msg = Garbage
  /\ gwTx = << >>
  /\ gwPub = << >>
  /\ members # {}

\* C16: the gateway sends into the mesh only when it handles a control
\* message: a step of the gateway that performs a mesh send is the handling
\* of one control message and sends that message, once; every message that
\* enters the mesh with the gateway as sender enters in such a step.
C16_OnlyControlSends ==
  [][ /\ gwTx' # << >> => /\ gwRx'.kind = "control"
                          /\ Len(gwTx') = 1
                          /\ gwTx'[1].msg = gwRx'.msg
      /\ \A m \in net' \ net :
           m.src = GatewayId => /\ gwRx' # gwRx
                                /\ gwRx'.kind = "control"
                                /\ m.msg = gwRx'.msg ]_vars

C16_Witness ==
  /\ gwRx.kind = "control"
  /\ Len(gwTx) = 1
  /\ gwTx[1].op = "broadcast"
  /\ \E m \in net : m.src = GatewayId /\ m.msg = gwRx.msg

\* C17: a sensor reading (a message without a type) that the gateway
\* receives from the mesh while connected is published once, as received,
\* on Nodos/datos/<id of the node it came from>; a publish on a data topic
\* happens only in the step that handles the message it carries.
C17_DataPublishedOnce ==
  /\ ( /\ gwRx.kind = "mesh"
       /\ gwRx.conn
       /\ AsCStr(gwRx.msg.doc.type) = NullPtr )
     => gwPub = << [topic   |-> [root |-> "Nodos/datos", leaf |-> JInt(gwRx.from)],
                    payload |-> gwRx.msg,
                    id      |-> gwRx.id] >>
  /\ \A i \in 1..Len(gwPub) :
       gwPub[i].topic # StatusTopic
       => gwRx.kind = "mesh" /\ gwPub[i].id = gwRx.id

C17_Witness ==
  /\ gwRx.kind = "mesh"
  /\ gwRx.conn
  /\ gwRx.from = 5
  /\ gwRx.msg = SensorPayload
  /\ Len(gwPub) = 1
  /\ gwPub[1].payload = SensorPayload

\* C18: every step in which the gateway publishes (a reading, a reply or
\* the status) is taken with the session connected.
C18_PublishOnlyConnected ==
  [][ (gwPub' # << >> /\ gwPub' # gwPub) => (connected /\ connected') ]_vars

\* a message handled without a session, and nothing published
C18_Witness ==
  /\ gwRx.kind = "mesh"
  /\ ~gwRx.conn
  /\ ~connected
  /\ stationIP # 0
  /\ gwPub = << >>

\* C19: with the session connected and an address, the step that handles
\* the expiry of the 60 s timer publishes exactly one message on
\* Nodos/datos/gateway, carrying nodeId "gateway", the address and the
\* number of nodes in the node list, and re-arms the timer; a status
\* message is published in no other step.
C19_StatusEachExpiry ==
  [][ /\ ( /\ gwPc = "timers"
           /\ gwPc' = "update"
           /\ ipReportDue
           /\ connected
           /\ stationIP # 0 )
         => /\ gwPub' = << [topic   |-> StatusTopic,
                            payload |-> [nodeId |-> JStr("gateway"),
                                         ip     |-> stationIP,
                                         nodes  |-> JInt(Cardinality(members))],
                            id      |-> 0] >>
            /\ ~ipReportDue'
      /\ ( /\ gwPub' # gwPub
           /\ \E i \in 1..Len(gwPub') : gwPub'[i].topic = StatusTopic )
         => (gwPc = "timers" /\ ipReportDue) ]_vars

C19_Witness ==
  /\ ~everDropped
  /\ connected
  /\ gwPc = "update"
  /\ Len(gwPub) = 1
  /\ gwPub[1].topic = StatusTopic
  /\ gwPub[1].payload.nodeId = JStr("gateway")
  /\ gwPub[1].payload.ip = stationIP

\* C23: reconnect() blocks: in a step taken while the gateway is inside
\* reconnect() without a session, the gateway handles no mesh message (what
\* is in flight to it stays in flight), handles no control message, sends
\* and publishes nothing, and loop() goes on only with the session set up.
C23_ReconnectBlocks ==
  [][ (gwPc = "reconnect" /\ ~connected)
      => /\ UNCHANGED <<gwRx, gwTx, gwPub, inbox>>
         /\ \A m \in net : m.dst = GatewayId => m \in net'
         /\ \A m \in net' \ net : m.src # GatewayId
         /\ gwPc' \in {"reconnect", "client"}
         /\ gwPc' = "client" <=> connected' ]_vars

\* inside reconnect(), a mesh message waits and the 60 s timer has expired
C23_Witness ==
  /\ gwPc = "reconnect"
  /\ ~connected
  /\ ipReportDue
  /\ \E m \in net : m.dst = GatewayId

\* C25: a PONG, TOPO or TRACE_REPLY that the gateway receives from the
\* mesh while connected is published, in the step that handles it, exactly
\* once and as received, on Nodos/datos/<id of the node it came from>, and
\* is then no longer in flight to the gateway.
C25_RepliesRepublished ==
  ( /\ gwRx.kind = "mesh"
    /\ gwRx.conn
    /\ gwRx.msg.text = "json"
    /\ gwRx.msg.doc.type \in ReplyTypes )
  => /\ Len(gwPub) = 1
     /\ gwPub[1].topic.root = "Nodos/datos"
     /\ gwPub[1].topic.leaf = JInt(gwRx.from)
     /\ gwPub[1].payload = gwRx.msg
     /\ gwPub[1].id = gwRx.id
     /\ \A m \in net : m.dst = GatewayId => m.id # gwRx.id

C25_Witness ==
  /\ gwRx.kind = "mesh"
  /\ gwRx.conn
  /\ gwRx.from = 42
  /\ gwRx.msg.doc.type = JStr("TRACE_REPLY")
  /\ Len(gwPub) = 1
  /\ gwPub[1].payload = gwRx.msg

\* C29: the gateway attempts a broker connection only while its station
\* address is not 0.0.0.0: no step of reconnect() is taken without an
\* address.
C29_NoStationNoBroker ==
  [][ stationIP = 0 => ~(GwConnectOk \/ GwConnectFail) ]_vars

\* C31: a periodic payload that a node puts into the mesh is JSON without
\* a type; the step in which a node handles a message sent by another node
\* performs no mesh send; and a step that performs a mesh send without a
\* new message being put in and without the gateway handling a control
\* message is a node handling a PING, a TOPO_REQ or a TRACE.
C31_NoSendOnSensorData ==
  [][ /\ \A m \in net' \ net :
           (m.src \in MeshNodes /\ injected' # injected)
           => (m.msg.text = "json" /\ AsCStr(m.msg.doc.type) = NullPtr)
      /\ \A m \in net \ net' :
           (m.src \in MeshNodes /\ m.dst \in MeshNodes /\ m.dst \in members')
           => nextId' = nextId
      /\ (nextId' # nextId /\ injected' = injected /\ inbox' = inbox)
         => \E m \in net \ net' :
               /\ m.dst \in MeshNodes
               /\ AsCStr(m.msg.doc.type) \in {"PING", "TOPO_REQ", "TRACE"} ]_vars

\* node 42 has handled the periodic payload of node 5, which is still on
\* its way to the gateway, and nothing was sent
C31_Witness ==
  /\ members = MeshNodes
  /\ nextId = 2
  /\ \E m \in net : /\ m.src = 5
                     /\ m.dst = GatewayId
                     /\ AsCStr(m.msg.doc.type) = NullPtr
  /\ \A m \in net : m.dst # 42

(***************************************************************************)
(* Properties of the system under its scheduling, checked under SpecLive.  *)
(***************************************************************************)
\* the state of the broker connection
ConnState ==
  IF connected THEN "connected"
  ELSE IF gwPc = "reconnect" THEN "connecting"
  ELSE "disconnected"

\* C22: the connection state changes only from disconnected to connecting,
\* from connecting to connected and from connected to disconnected (a
\* failed attempt leaves it connecting, without limit); once connecting,
\* the gateway gets connected; and while it has no session and has an
\* address, it gets connected unless the address goes away.
C22_ReconnectMachine ==
  /\ [][ \/ ConnState' = ConnState
         \/ ConnState = "disconnected" /\ ConnState' = "connecting"
         \/ ConnState = "connecting" /\ ConnState' = "connected"
         \/ ConnState = "connected" /\ ConnState' = "disconnected" ]_vars
  /\ (ConnState = "connecting") ~> connected
  /\ (~connected /\ stationIP # 0) ~> (connected \/ stationIP = 0)

\* a session that was lost and set up again
C22_Witness ==
  /\ reconnected
  /\ ConnState = "connected"
  /\ gwPc = "client"

C26_GatewayAnswers ==
  (gwRx.kind = "mesh" /\ gwRx.msg.text = "json")
  => /\ ( /\ gwRx.msg.doc.type = JStr("PING")
          /\ gwRx.msg.doc.to = JInt(GatewayId) )
        => gwTx = << sendSingle(AsU32(gwRx.msg.doc.from),
                       serializeJson([EmptyDoc EXCEPT
                         !.type = JStr("PONG"),
                         !.seq = JInt(AsU32(gwRx.msg.doc.seq)),
                         !.from = JInt(GatewayId)])) >>
     /\ gwRx.msg.doc.type = JStr("TOPO_REQ")
        => /\ Len(gwTx) = 1
           /\ gwTx[1].op = "single"
           /\ gwTx[1].dst = AsU32(gwRx.msg.doc.from)
           /\ gwTx[1].msg.doc.type = JStr("TOPO")

(***************************************************************************)
(* Property of the first gateway program, checked under SpecFirst.         *)
(***************************************************************************)
\* C28: whenever the gateway has a broker session it holds the
\* subscription to the control topic.
C28_ConnectedSubscribed == connected => subscribed

=============================================================================
